---- MODULE Spec2Model ----
(***************************************************************************)
(* Discord Rich Presence plugin for Navidrome (src/main.go).               *)
(*                                                                         *)
(* Two parts of the plugin are modelled:                                   *)
(*   - resolveSpotifyURL and its helpers: the cache-backed fallback chain  *)
(*     (cache read, lookup by MBID, lookup by metadata, search URL);       *)
(*   - the presence lifecycle: NowPlaying (one step per remote call, so    *)
(*     that invocations interleave) and OnCallback.                        *)
(*                                                                         *)
(* Strings are sequences of one-character strings, so that trimming,       *)
(* searching, lower-casing, suffix stripping and escaping are computed as  *)
(* the Go code computes them.  A few fixed literals (URL prefixes, the     *)
(* cache namespace, the NUL byte) are single elements of such a sequence.  *)
(***************************************************************************)
EXTENDS Integers, Sequences, FiniteSets, TLC

(***************************************************************************)
(* String helpers (Go package strings).                                    *)
(***************************************************************************)

\* unicode.IsSpace on the characters the model uses
IsSpace(c) == c \in {" ", "\t", "\n", "\r"}

RECURSIVE TrimLeft(_)
TrimLeft(s) ==
    IF s = <<>> THEN <<>>
    ELSE IF IsSpace(Head(s)) THEN TrimLeft(Tail(s)) ELSE s

RECURSIVE TrimRight(_)
TrimRight(s) ==
    IF s = <<>> THEN <<>>
    ELSE IF IsSpace(s[Len(s)]) THEN TrimRight(SubSeq(s, 1, Len(s) - 1)) ELSE s

\* strings.TrimSpace
TrimSpace(s) == TrimRight(TrimLeft(s))

UpperChars == <<"A","B","C","D","E","F","G","H","I","J","K","L","M",
                "N","O","P","Q","R","S","T","U","V","W","X","Y","Z">>

LowerChars == <<"a","b","c","d","e","f","g","h","i","j","k","l","m",
                "n","o","p","q","r","s","t","u","v","w","x","y","z">>

LowerChar(c) ==
    IF \E i \in 1..Len(UpperChars) : UpperChars[i] = c
    THEN LowerChars[CHOOSE i \in 1..Len(UpperChars) : UpperChars[i] = c]
    ELSE c

\* strings.ToLower
ToLower(s) == [i \in 1..Len(s) |-> LowerChar(s[i])]

\* strings.Index: 0-based byte offset of the first occurrence of sep, or -1
Index(s, sep) ==
    LET hits == {i \in 0..(Len(s) - Len(sep)) : SubSeq(s, i + 1, i + Len(sep)) = sep}
    IN  IF hits = {} THEN -1 ELSE CHOOSE i \in hits : \A j \in hits : i <= j

\* strings.HasSuffix
HasSuffix(s, suffix) ==
    /\ Len(s) >= Len(suffix)
    /\ SubSeq(s, Len(s) - Len(suffix) + 1, Len(s)) = suffix

\* Faulty variant: up to two trailing suffixes are removed
TrimSuffixTwice(s, suffix) ==
    LET once == IF HasSuffix(s, suffix) THEN SubSeq(s, 1, Len(s) - Len(suffix)) ELSE s
    IN  IF HasSuffix(once, suffix) THEN SubSeq(once, 1, Len(once) - Len(suffix))
        ELSE once

\* strings.TrimSuffix: one trailing suffix is removed, if there is one
TrimSuffix(s, suffix) ==
    IF HasSuffix(s, suffix) THEN SubSeq(s, 1, Len(s) - Len(suffix)) ELSE s

\* strings.Join([]string{a, b}, " ")
JoinSpace(a, b) == a \o <<" ">> \o b

(***************************************************************************)
(* url.PathEscape: a byte is kept when it is unreserved or one of the      *)
(* reserved characters allowed in a path segment, and otherwise written    *)
(* as %XX.                                                                 *)
(***************************************************************************)
Digits == {"0","1","2","3","4","5","6","7","8","9"}

Letters == {UpperChars[i] : i \in 1..Len(UpperChars)}
             \cup {LowerChars[i] : i \in 1..Len(LowerChars)}

PathSafe == Letters \cup Digits \cup {"-", "_", ".", "~", "$", "&", "+", "=", ":", "@"}

PercentCode(c) ==
    CASE c = " "  -> <<"%", "2", "0">>
      [] c = "/"  -> <<"%", "2", "F">>
      [] c = "\t" -> <<"%", "0", "9">>
      [] c = "\n" -> <<"%", "0", "A">>
      [] c = "\r" -> <<"%", "0", "D">>
      [] c = "%"  -> <<"%", "2", "5">>
      [] c = "?"  -> <<"%", "3", "F">>
      [] c = ","  -> <<"%", "2", "C">>
      [] c = ";"  -> <<"%", "3", "B">>
      [] OTHER    -> <<"%", c>>

RECURSIVE PathEscape(_)
PathEscape(s) ==
    IF s = <<>> THEN <<>>
    ELSE (IF Head(s) \in PathSafe THEN <<Head(s)>> ELSE PercentCode(Head(s)))
           \o PathEscape(Tail(s))

(***************************************************************************)
(* URLs and the cache key.                                                 *)
(***************************************************************************)
SearchRoot == "https://open.spotify.com/search/"

TrackRoot == "https://open.spotify.com/track/"

\* "https://open.spotify.com/track/" + trackID
DirectURL(trackID) == <<TrackRoot>> \o trackID

IsDirectURL(u) == Len(u) >= 1 /\ u[1] = TrackRoot

IsSearchURL(u) == Len(u) >= 1 /\ u[1] = SearchRoot

\* Faulty variant: the title comes before the artist
buildSpotifySearchURLTitleFirst(title, artist) ==
    LET query == TrimSpace(JoinSpace(title, artist))
    IN  IF query = <<>> THEN <<SearchRoot>>
        ELSE <<SearchRoot>> \o PathEscape(query)

buildSpotifySearchURL(title, artist) ==
    LET query == TrimSpace(JoinSpace(artist, title))
    IN  IF query = <<>> THEN <<SearchRoot>>
        ELSE <<SearchRoot>> \o PathEscape(query)

spotifyCacheTTLHit == 30 * 24 * 60 * 60

spotifyCacheTTLMiss == 4 * 60 * 60

\* The zero byte that separates the three fields in the digest's input
NUL == "NUL"

\* hex(sha256(bytes)[:8]).  The digest is idealised as collision-free: it is
\* represented by its input, tagged.
Sha256Hex8(bytes) == <<"sha256:8">> \o bytes

spotifyCacheKey(artist, title, album) ==
    <<"spotify.url.">>
      \o Sha256Hex8(ToLower(artist) \o <<NUL>> \o ToLower(title) \o <<NUL>> \o ToLower(album))

(***************************************************************************)
(* parsePrimaryArtist                                                      *)
(***************************************************************************)
FeatSeps == << <<" ","f","e","a","t","."," ">>,
               <<" ","f","t","."," ">>,
               <<" ","f","e","a","t","u","r","i","n","g"," ">> >>

CoSeps == << <<" ","&"," ">>, <<" ","/"," ">> >>

\* The first separator of the list, in list order, that occurs in s; 0 if none
FirstSep(s, seps) ==
    LET found == {k \in 1..Len(seps) : Index(s, seps[k]) >= 0}
    IN  IF found = {} THEN 0 ELSE CHOOSE k \in found : \A m \in found : k <= m

\* Returns <<primary, featSuffix>>
parsePrimaryArtist(raw) ==
    LET artist == TrimSpace(raw)
        lower  == ToLower(artist)
        f      == FirstSep(lower, FeatSeps)
        c      == FirstSep(artist, CoSeps)
    IN  IF artist = <<>> THEN << <<>>, <<>> >>
        ELSE IF f > 0
        THEN LET i == Index(lower, FeatSeps[f])
             IN  << TrimSpace(SubSeq(artist, 1, i)),
                    TrimSpace(SubSeq(artist, i + 1, Len(artist))) >>
        ELSE IF c > 0
        THEN LET i == Index(artist, CoSeps[c])
             IN  << TrimSpace(SubSeq(artist, 1, i)), <<>> >>
        ELSE << artist, <<>> >>

(***************************************************************************)
(* ListenBrainz lookups.  An HTTP response is [status, body]; a body is    *)
(* [json |-> FALSE] when json.Unmarshal fails, and otherwise the decoded   *)
(* array: one sequence of spotify_track_ids per result object (an absent   *)
(* or null field decodes to the empty sequence).                           *)
(***************************************************************************)
RECURSIVE FirstNonEmptyID(_)
FirstNonEmptyID(ids) ==
    IF ids = <<>> THEN <<>>
    ELSE IF Head(ids) # <<>> THEN Head(ids) ELSE FirstNonEmptyID(Tail(ids))

\* Faulty variant: a first result without an id ends the scan
ScanResultsFirstOnly(results) ==
    IF results = <<>> THEN <<>> ELSE FirstNonEmptyID(Head(results))

RECURSIVE ScanResults(_)
ScanResults(results) ==
    IF results = <<>> THEN <<>>
    ELSE LET id == FirstNonEmptyID(Head(results))
         IN  IF id # <<>> THEN id ELSE ScanResults(Tail(results))

parseSpotifyID(body) ==
    IF ~body.json THEN <<>> ELSE ScanResults(body.results)

StatusOK(status) == ~(status < 200 \/ status >= 300)

\* resp is what req.Send() returns for the spotify-id-from-mbid request
trySpotifyFromMBID(mbid, resp) ==
    IF ~StatusOK(resp.status) THEN <<>> ELSE parseSpotifyID(resp.body)

\* resp is what req.Send() returns for the spotify-id-from-metadata request
trySpotifyFromMetadata(artist, title, album, resp) ==
    IF ~StatusOK(resp.status) THEN <<>> ELSE parseSpotifyID(resp.body)

(***************************************************************************)
(* The host cache: key -> entry.  A read returns (value, exists, err); on  *)
(* an error the value is empty and the exists flag is whatever the host    *)
(* left in it.  A failed write stores nothing.                             *)
(***************************************************************************)
NoEntry == [present |-> FALSE, value |-> <<>>, ttl |-> 0]

CacheGetString(store, key, rd) ==
    IF rd.err THEN [value |-> <<>>, exists |-> rd.flag, err |-> TRUE]
    ELSE [value |-> store[key].value, exists |-> store[key].present, err |-> FALSE]

CacheSetString(store, key, value, ttl, ok) ==
    IF ok THEN [store EXCEPT ![key] = [present |-> TRUE, value |-> value, ttl |-> ttl]]
    ELSE store

(***************************************************************************)
(* resolveSpotifyURL.  store is the cache before the call; rd, r1, r2 and  *)
(* wr are what the collaborators answer: the cache read, the two HTTP      *)
(* responses (each used only if its request is sent) and whether the cache *)
(* write succeeds.  The result is the returned URL, the remote calls made, *)
(* in order, and the cache after the call.                                 *)
(***************************************************************************)
PrimaryArtist(track) ==
    LET primary == parsePrimaryArtist(track.Artist)[1]
    IN  IF primary = <<>> /\ Len(track.Artists) > 0 THEN track.Artists[1] ELSE primary

TrackCacheKey(track) == spotifyCacheKey(PrimaryArtist(track), track.Title, track.Album)

\* Faulty variant: only a cached direct URL is served, a cached search URL is resolved again
CacheHitDirectOnly(got) == ~got.err /\ got.exists /\ IsDirectURL(got.value)

\* Faulty variant: the error of the cache read is not looked at
CacheHitIgnoresErr(got) == got.exists

\* err == nil && exists
CacheHit(got) == ~got.err /\ got.exists

\* if track.MBZRecordingID != ""
TryMBID(track) == track.MBZRecordingID # <<>>

\* Faulty variant: the metadata lookup is made although the MBID lookup yielded an id
TryMetadataAlways(primary, title, id1) == primary # <<>> /\ title # <<>>

\* if primary != "" && track.Title != "", reached when the MBID step did not return
TryMetadata(primary, title, id1) == id1 = <<>> /\ primary # <<>> /\ title # <<>>

\* Faulty variant: a direct URL is stored with the short TTL
DirectTTLShort == spotifyCacheTTLMiss

\* TTL of the write that stores a direct URL
DirectTTL == spotifyCacheTTLHit

\* Faulty variant: the search URL is stored with the long TTL
FallbackTTLLong == spotifyCacheTTLHit

\* TTL of the write that stores the fallback search URL
FallbackTTL == spotifyCacheTTLMiss

\* Faulty variant: the search URL is built from the parsed primary artist
FallbackURLFromPrimary(track) ==
    buildSpotifySearchURL(track.Title, PrimaryArtist(track))

\* The search URL of step 3: built from the raw track artist
FallbackURL(track) == buildSpotifySearchURL(track.Title, track.Artist)

\* Faulty variant: the write goes to the key of a track with no fields
WriteKeyOfEmptyTrack(cacheKey) == spotifyCacheKey(<<>>, <<>>, <<>>)

\* The key of the write: the key that was read
WriteKey(cacheKey) == cacheKey

\* The requests of the fallback chain that are sent, in order
LookupCalls(viaMBID, mbidCall, viaMeta, metaCall) ==
    (IF viaMBID THEN <<mbidCall>> ELSE <<>>) \o (IF viaMeta THEN <<metaCall>> ELSE <<>>)

\* The cache writes of a call that missed
WriteCalls(setCall) == <<setCall>>

\* primary, cacheKey and searchURL are the values the code computes from the
\* track: PrimaryArtist(track), TrackCacheKey(track) and FallbackURL(track).
resolveChain(track, primary, cacheKey, searchURL, store, rd, r1, r2, wr) ==
    LET got      == CacheGetString(store, cacheKey, rd)
        getCall  == [op |-> "CacheGetString", key |-> cacheKey, value |-> got.value,
                     exists |-> got.exists, err |-> got.err]
    IN  IF CacheHit(got)
        THEN [url |-> got.value, calls |-> <<getCall>>, store |-> store]
        ELSE
          LET viaMBID  == TryMBID(track)
              id1      == IF viaMBID THEN trySpotifyFromMBID(track.MBZRecordingID, r1)
                          ELSE <<>>
              mbidCall == [op |-> "spotify-id-from-mbid", mbid |-> track.MBZRecordingID,
                           resp |-> r1, id |-> id1]
              viaMeta  == TryMetadata(primary, track.Title, id1)
              id2      == IF viaMeta
                          THEN trySpotifyFromMetadata(primary, track.Title, track.Album, r2)
                          ELSE <<>>
              metaCall == [op |-> "spotify-id-from-metadata", artist |-> primary,
                           title |-> track.Title, album |-> track.Album,
                           resp |-> r2, id |-> id2]
              url      == IF id1 # <<>> THEN DirectURL(id1)
                          ELSE IF id2 # <<>> THEN DirectURL(id2)
                          ELSE searchURL
              ttl      == IF id1 # <<>> \/ id2 # <<>> THEN DirectTTL ELSE FallbackTTL
              setCall  == [op |-> "CacheSetString", key |-> WriteKey(cacheKey),
                           value |-> url, ttl |-> ttl, ok |-> wr]
          IN  [url   |-> url,
               calls |-> <<getCall>> \o LookupCalls(viaMBID, mbidCall, viaMeta, metaCall)
                           \o WriteCalls(setCall),
               store |-> CacheSetString(store, WriteKey(cacheKey), url, ttl, wr)]

(***************************************************************************)
(* Inputs.                                                                 *)
(***************************************************************************)
IdX == <<"x">>

IdY == <<"y">>

Mbid == <<"m">>

Track(artist, artists, title, album, mbid, duration) ==
    [Artist |-> artist, Artists |-> artists, Title |-> title, Album |-> album,
     MBZRecordingID |-> mbid, Duration |-> duration]

\* "R" - "k" on "o", with a recording id
TrkKarma == Track(<<"R">>, <<>>, <<"k">>, <<"o">>, Mbid, 200)

\* the same track in lower case and without a recording id: same cache key
TrkLower == Track(<<"r">>, <<>>, <<"k">>, <<"o">>, <<>>, 10)

\* "R ft. G": same primary artist, hence the same cache key, other raw artist
TrkFeat == Track(<<"R"," ","f","t","."," ","G">>, <<>>, <<"k">>, <<"o">>, <<>>, 200)

\* no artist string, a structured artist list
TrkArtists == Track(<<>>, << <<"F">> >>, <<"s">>, <<>>, <<>>, 200)

\* nothing but a recording id
TrkEmpty == Track(<<>>, <<>>, <<>>, <<>>, Mbid, 200)

\* a blank artist, no title, no recording id: neither lookup applies
TrkBlank == Track(<<" ">>, <<>>, <<>>, <<>>, <<>>, 200)

Tracks == {TrkKarma, TrkLower, TrkFeat, TrkArtists, TrkEmpty, TrkBlank}

\* The values derived from each track, computed once
PrimaryOf == [t \in Tracks |-> PrimaryArtist(t)]

KeyOf == [t \in Tracks |-> TrackCacheKey(t)]

SearchOf == [t \in Tracks |-> FallbackURL(t)]

CacheKeys == {KeyOf[t] : t \in Tracks}

resolveSpotifyURL(track, store, rd, r1, r2, wr) ==
    resolveChain(track, PrimaryOf[track], KeyOf[track], SearchOf[track],
                 store, rd, r1, r2, wr)

Body(results) == [json |-> TRUE, results |-> results]

BadBody == [json |-> FALSE, results |-> <<>>]

Responses ==
    { [status |-> 200, body |-> Body(<< <<IdX>> >>)],
      [status |-> 200, body |-> Body(<< <<>>, << <<>>, IdY >> >>)],
      [status |-> 200, body |-> BadBody],
      [status |-> 404, body |-> Body(<< <<IdY>> >>)] }

\* What stands for the answer to a request that is never sent
NoResponse == [status |-> 0, body |-> BadBody]

\* Whether a call of the given kind is among the calls of a result
Sends(out, op) == \E i \in 1..Len(out.calls) : out.calls[i].op = op

Answers(sent, responses) == IF sent THEN responses ELSE {NoResponse}

WriteAnswers(sent, writes) == IF sent THEN writes ELSE {TRUE}

CacheReadOk == [err |-> FALSE, flag |-> FALSE]

CacheReads == { CacheReadOk,
                [err |-> TRUE,  flag |-> FALSE],
                [err |-> TRUE,  flag |-> TRUE] }

\* Every way one call of resolveSpotifyURL(track) can go over the cache store,
\* given what the cache and the lookup endpoints may answer.  A collaborator
\* answers only the requests that are sent: whether a request is sent is read
\* off the calls the function makes, given the answers to the requests before.
ResolveOutcomesOver(t, store, reads, responses, writes) ==
    UNION { UNION { UNION { { resolveSpotifyURL(t, store, rd, r1, r2, wr) :
        wr \in WriteAnswers(Sends(resolveSpotifyURL(t, store, rd, r1, r2, TRUE),
                                  "CacheSetString"), writes) } :
        r2 \in Answers(Sends(resolveSpotifyURL(t, store, rd, r1, NoResponse, TRUE),
                             "spotify-id-from-metadata"), responses) } :
        r1 \in Answers(Sends(resolveSpotifyURL(t, store, rd, NoResponse, NoResponse, TRUE),
                             "spotify-id-from-mbid"), responses) } :
        rd \in reads }

\* A direct call: the cache and the endpoints may fail in every way
ResolveOutcomes(t, store) == ResolveOutcomesOver(t, store, CacheReads, Responses, BOOLEAN)

\* The call within NowPlaying: the cache and the endpoints are in working order
Found == [status |-> 200, body |-> Body(<< <<IdX>> >>)]

ResolveOutcomesInOrder(t, store) ==
    ResolveOutcomesOver(t, store, {CacheReadOk}, {Found}, {TRUE})

(***************************************************************************)
(* Configuration (pdk.GetConfig) and getConfig.  A stored value is         *)
(* [ok, value]; the users value is the JSON text, represented by its kind  *)
(* ("empty" for "", "invalid" when json.Unmarshal fails, "array") and the  *)
(* decoded array of {username, token} pairs.                               *)
(***************************************************************************)
NoUsers == [u \in {} |-> <<>>]

\* Faulty variant: a pair without a token is accepted
ValidUserTokenWithoutToken(ut) == ut.Username # <<>>

\* if ut.Username != "" && ut.Token != ""
ValidUserToken(ut) == ut.Username # <<>> /\ ut.Token # <<>>

\* for _, ut := range userTokens { if ... { users[ut.Username] = ut.Token } }
RECURSIVE BuildUsers(_, _)
BuildUsers(items, users) ==
    IF items = <<>> THEN users
    ELSE LET ut == Head(items)
         IN  BuildUsers(Tail(items),
                 IF ValidUserToken(ut)
                 THEN [u \in DOMAIN users \cup {ut.Username} |->
                          IF u = ut.Username THEN ut.Token ELSE users[u]]
                 ELSE users)

\* Faulty variant: a missing or unparsable value is returned as an error
getConfigReportingFailure(cfg) ==
    IF ~cfg.clientid.ok \/ cfg.clientid.value = <<>>
    THEN [clientID |-> <<>>, users |-> NoUsers, err |-> TRUE]
    ELSE IF ~cfg.users.ok \/ cfg.users.kind \in {"empty", "invalid"}
    THEN [clientID |-> cfg.clientid.value, users |-> NoUsers, err |-> TRUE]
    ELSE [clientID |-> cfg.clientid.value,
          users    |-> BuildUsers(cfg.users.items, NoUsers),
          err      |-> FALSE]

\* Returns (clientID, users, err); err is nil on every path
getConfig(cfg) ==
    IF ~cfg.clientid.ok \/ cfg.clientid.value = <<>>
    THEN [clientID |-> <<>>, users |-> NoUsers, err |-> FALSE]
    ELSE IF ~cfg.users.ok \/ cfg.users.kind = "empty"
    THEN [clientID |-> cfg.clientid.value, users |-> NoUsers, err |-> FALSE]
    ELSE IF cfg.users.kind = "invalid"
    THEN [clientID |-> cfg.clientid.value, users |-> NoUsers, err |-> FALSE]
    ELSE IF Len(cfg.users.items) = 0
    THEN [clientID |-> cfg.clientid.value, users |-> NoUsers, err |-> FALSE]
    ELSE [clientID |-> cfg.clientid.value,
          users    |-> BuildUsers(cfg.users.items, NoUsers),
          err      |-> FALSE]

(***************************************************************************)
(* The host scheduler: a bag of pending schedules, job -> number of        *)
(* copies.  A job is [id, payload, recurring] and two history flags:       *)
(* stale (a later NowPlaying of its user has sent its presence) and missed *)
(* (a cancel call for its id returned an error).  A cancel that succeeds   *)
(* removes every schedule of that id; one that fails removes nothing.  A   *)
(* schedule call that succeeds registers one more schedule.                *)
(***************************************************************************)
NoJobs == [j \in {} |-> 0]

RECURSIVE SumCounts(_, _)
SumCounts(bag, jobs) ==
    IF jobs = {} THEN 0
    ELSE LET j == CHOOSE x \in jobs : TRUE
         IN  bag[j] + SumCounts(bag, jobs \ {j})

BagSize(bag) == SumCounts(bag, DOMAIN bag)

BagAdd(bag, j) ==
    [x \in DOMAIN bag \cup {j} |->
        IF x = j THEN (IF j \in DOMAIN bag THEN bag[j] + 1 ELSE 1) ELSE bag[x]]

BagRemoveOne(bag, j) ==
    IF bag[j] > 1 THEN [bag EXCEPT ![j] = @ - 1]
    ELSE [x \in DOMAIN bag \ {j} |-> bag[x]]

\* The bag with each job j replaced by Change(j)
BagMap(bag, Change(_)) ==
    [y \in {Change(x) : x \in DOMAIN bag} |->
        SumCounts(bag, {x \in DOMAIN bag : Change(x) = y})]

payloadHeartbeat == "heartbeat"

payloadClearActivity == "clear-activity"

ClearSuffix == <<"-","c","l","e","a","r">>

\* Faulty variant: the cancel names the username alone
CancelIDWithoutSuffix(username) == username

\* fmt.Sprintf("%s-clear", input.Username), the id that is cancelled
CancelID(username) == username \o ClearSuffix

\* Faulty variant: the clear callback is scheduled under the bare username
ClearScheduleIDBare(username) == username

\* fmt.Sprintf("%s-clear", input.Username), the id that is scheduled
ClearScheduleID(username) == username \o ClearSuffix

Job(id, payload, recurring) ==
    [id |-> id, payload |-> payload, recurring |-> recurring,
     stale |-> FALSE, missed |-> FALSE]

\* host.SchedulerCancelSchedule(id)
SchedulerCancelSchedule(jobs, id, ok) ==
    IF ok THEN [j \in {x \in DOMAIN jobs : x.id # id} |-> jobs[j]]
    ELSE BagMap(jobs, LAMBDA j : IF j.id = id /\ ~j.recurring
                                 THEN [j EXCEPT !.missed = TRUE] ELSE j)

\* host.SchedulerScheduleOneTime(delay, payload, id)
SchedulerScheduleOneTime(jobs, payload, id, ok) ==
    IF ok THEN BagAdd(jobs, Job(id, payload, FALSE)) ELSE jobs

\* host.SchedulerScheduleRecurring(cron, payload, id)
SchedulerScheduleRecurring(jobs, payload, id) == BagAdd(jobs, Job(id, payload, TRUE))

\* The pending clear callbacks of a user
IsClearOf(j, username) ==
    j.payload = payloadClearActivity /\ j.id = ClearScheduleID(username)

\* The most schedules the host holds; a schedule call beyond it fails
MaxJobs == 3

(***************************************************************************)
(* NowPlaying inputs.                                                      *)
(***************************************************************************)
UserB == <<"b">>

\* a username that ends in "-clear"
UserBC == <<"b","-","c","l","e","a","r">>

\* a user configured with an empty token
UserZ == <<"z">>

Usernames == {UserB, UserBC, UserZ}

Token == <<"t">>

ConfigGood ==
    [clientid |-> [ok |-> TRUE, value |-> <<"c">>],
     users    |-> [ok |-> TRUE, kind |-> "array",
                   items |-> << [Username |-> UserB,  Token |-> Token],
                                [Username |-> UserZ,  Token |-> <<>>],
                                [Username |-> UserBC, Token |-> Token] >>]]

ConfigNoClient == [ConfigGood EXCEPT !.clientid = [ok |-> FALSE, value |-> <<>>]]

ConfigBadUsers ==
    [ConfigGood EXCEPT !.users = [ok |-> TRUE, kind |-> "invalid", items |-> <<>>]]

ConfigNoUsers ==
    [ConfigGood EXCEPT !.users = [ok |-> FALSE, kind |-> "empty", items |-> <<>>]]

Configs == {ConfigGood, ConfigNoClient, ConfigBadUsers, ConfigNoUsers}

\* scrobbler.NowPlayingRequest: the events the host delivers
Request(username, track, position) ==
    [Username |-> username, Track |-> track, Position |-> position]

Requests ==
    { Request(UserB, TrkKarma, 30), Request(UserBC, TrkLower, 30),
      Request(UserZ, TrkKarma, 30) }

Slots == {1, 2}

\* Go int32 arithmetic: sums and differences wrap around
MaxInt32 == 2147483647

MinInt32 == (-MaxInt32) - 1

AddInt32(a, b) ==
    IF b > 0 /\ a > MaxInt32 - b THEN (a - MaxInt32 - 1) + (b - MaxInt32 - 1)
    ELSE IF b < 0 /\ a < MinInt32 - b THEN (a + MaxInt32 + 1) + (b + MaxInt32 + 1)
    ELSE a + b

SubInt32(a, b) ==
    IF b = MinInt32
    THEN (IF a >= 0 THEN (a - MaxInt32) - 1 ELSE (a + MaxInt32) + 1)
    ELSE AddInt32(a, -b)

\* Faulty variant: no grace period
RemainingSecondsWithoutGrace(duration, position) == SubInt32(duration, position)

\* int32(input.Track.Duration) - input.Position + 5
RemainingSeconds(duration, position) == AddInt32(SubInt32(duration, position), 5)

(***************************************************************************)
(* State.                                                                  *)
(***************************************************************************)
VARIABLES
    cache,      \* the host cache: CacheKeys -> entry
    res,        \* the direct resolveSpotifyURL call that has just returned, or NoRes
    config,     \* the stored plugin configuration
    sched,      \* the host scheduler's pending schedules
    connected,  \* rpc: the users with a session
    presence,   \* Discord: whether a presence of the user is on display
    inv,        \* the NowPlaying invocations in progress: a bag, invocation -> copies
    overlapped, \* the users that had two NowPlaying invocations at once
    lastNP,     \* the NowPlaying call that has just returned, or NoNP
    lastCb,     \* the OnCallback call that has just returned, or NoCb
    probe       \* the call of a function without effects that has just returned

vars ==
    <<cache, res, config, sched, connected, presence, inv, overlapped, lastNP, lastCb,
      probe>>

\* What a direct call of resolveSpotifyURL leaves alone
presenceVars == <<config, sched, connected, presence, inv, overlapped, probe>>

NoRes == [done |-> FALSE]

NoCb == [done |-> FALSE]

NoNP == [done |-> FALSE]

NoProbe == [done |-> FALSE]

\* No NowPlaying invocation is in progress
NoneInProgress == [r \in {} |-> 0]

Init ==
    /\ cache = [k \in CacheKeys |-> NoEntry]
    /\ res = NoRes
    /\ config \in Configs
    /\ sched = NoJobs
    /\ connected = {}
    /\ presence = [u \in Usernames |-> FALSE]
    /\ inv = NoneInProgress
    /\ overlapped = {}
    /\ lastNP = NoNP
    /\ lastCb = NoCb
    /\ probe = NoProbe

\* A direct call of resolveSpotifyURL(track)
ResolveCall ==
    \E t \in Tracks :
      \E out \in ResolveOutcomes(t, cache) :
        /\ cache' = out.store
        /\ res' = [done |-> TRUE, track |-> t, url |-> out.url, calls |-> out.calls]
        /\ UNCHANGED <<presenceVars, lastNP, lastCb>>

\* The TTL of an entry runs out and the host drops it
CacheExpire ==
    \E k \in CacheKeys :
        /\ cache[k].present
        /\ cache' = [cache EXCEPT ![k] = NoEntry]
        /\ res' = NoRes
        /\ UNCHANGED presenceVars

\* Time passes between direct calls
CacheExpiresBetweenCalls == CacheExpire /\ UNCHANGED <<lastNP, lastCb>>

NextResolver == ResolveCall \/ CacheExpiresBetweenCalls

InitResolver == Init /\ config = ConfigGood

SpecResolver == InitResolver /\ [][NextResolver]_vars

(***************************************************************************)
(* NowPlaying, one step per remote call.  An invocation in progress is its *)
(* input, the statement it is at and the calls it has made; the host runs  *)
(* up to Cardinality(Slots) invocations at once.  When an invocation       *)
(* returns, lastNP holds its input, its calls and its result.              *)
(***************************************************************************)
Called(r, call) == [r EXCEPT !.calls = Append(@, call)]

Returned(r, result) ==
    [done |-> TRUE, user |-> r.user, track |-> r.track, position |-> r.position,
     calls |-> r.calls, result |-> result]

\* The invocation r goes on as the invocation next
Proceed(r, next) == BagAdd(BagRemoveOne(inv, r), next)

\* rpc.connect(username, token): a new session registers the recurring
\* heartbeat schedule, whose id is the username
Connect(u) ==
    IF u \in connected
    THEN UNCHANGED <<connected, sched>>
    ELSE /\ connected' = connected \cup {u}
         /\ sched' = SchedulerScheduleRecurring(sched, payloadHeartbeat, u)

\* Entry: getConfig, the authorization check and rpc.connect
NowPlayingBegin ==
    /\ BagSize(inv) < Cardinality(Slots)
    /\ \E input \in Requests :
         LET u     == input.Username
             cfg   == getConfig(config)
             start == [pc |-> "connect", user |-> u, track |-> input.Track,
                       position |-> input.Position, calls |-> <<>>]
             conn  == Called(start, [op |-> "connect", username |-> u, err |-> FALSE])
             fail  == Called(start, [op |-> "connect", username |-> u, err |-> TRUE])
         IN  IF cfg.err
             THEN /\ lastNP' = Returned(start, "RetryLater")
                  /\ UNCHANGED <<inv, connected, sched, overlapped>>
             ELSE IF u \notin DOMAIN cfg.users
             THEN /\ lastNP' = Returned(start, "NotAuthorized")
                  /\ UNCHANGED <<inv, connected, sched, overlapped>>
             ELSE \/ /\ lastNP' = Returned(fail, "RetryLater")
                     /\ UNCHANGED <<inv, connected, sched, overlapped>>
                  \/ /\ u \in connected \/ BagSize(sched) < MaxJobs
                     /\ inv' = BagAdd(inv, [conn EXCEPT !.pc = "cancel"])
                     /\ Connect(u)
                     /\ overlapped' =
                          IF \E r \in DOMAIN inv : r.user = u
                          THEN overlapped \cup {u} ELSE overlapped
                     /\ lastNP' = NoNP
    /\ lastCb' = NoCb
    /\ UNCHANGED <<cache, res, config, probe, presence>>

\* Faulty variant: a cancel error ends the call
NowPlayingCancelFatal(r) ==
    /\ r.pc = "cancel"
    /\ LET cancelled == Called(r, [op |-> "SchedulerCancelSchedule",
                                   id |-> CancelID(r.user)])
       IN  \/ /\ sched' = SchedulerCancelSchedule(sched, CancelID(r.user), TRUE)
              /\ inv' = Proceed(r, [cancelled EXCEPT !.pc = "send"])
              /\ lastNP' = NoNP
           \/ /\ sched' = SchedulerCancelSchedule(sched, CancelID(r.user), FALSE)
              /\ inv' = BagRemoveOne(inv, r)
              /\ lastNP' = Returned(cancelled, "RetryLater")
    /\ lastCb' = NoCb
    /\ UNCHANGED <<cache, res, config, probe, connected, presence, overlapped>>

\* _ = host.SchedulerCancelSchedule(username + "-clear")
NowPlayingCancel(r) ==
    /\ r.pc = "cancel"
    /\ \E ok \in BOOLEAN :
         sched' = SchedulerCancelSchedule(sched, CancelID(r.user), ok)
    /\ inv' = Proceed(r, [Called(r, [op |-> "SchedulerCancelSchedule",
                                     id |-> CancelID(r.user)])
                            EXCEPT !.pc = "send"])
    /\ lastNP' = NoNP
    /\ lastCb' = NoCb
    /\ UNCHANGED <<cache, res, config, probe, connected, presence, overlapped>>

\* The pending clear callbacks of the user are now those of an earlier track
Superseded(jobs, u) ==
    BagMap(jobs, LAMBDA j : IF IsClearOf(j, u) THEN [j EXCEPT !.stale = TRUE] ELSE j)

\* The calls of the sendActivity statement: its arguments getImageURL and
\* resolveSpotifyURL are evaluated first
SendCalls(err) ==
    << [op |-> "getImageURL"], [op |-> "resolveSpotifyURL"],
       [op |-> "sendActivity", err |-> err] >>

\* The invocation with the calls of the sendActivity statement
Sent(r, err) == [r EXCEPT !.calls = @ \o SendCalls(err)]

\* The sendActivity statement, resolveSpotifyURL(input.Track) going one of
\* the given ways
SendActivity(r, outcomes) ==
    /\ r.pc = "send"
    /\ \E out \in outcomes : cache' = out.store
    /\ \/ /\ lastNP' = Returned(Sent(r, TRUE), "RetryLater")
          /\ inv' = BagRemoveOne(inv, r)
          /\ UNCHANGED <<presence, sched>>
       \/ /\ inv' = Proceed(r, [Sent(r, FALSE) EXCEPT !.pc = "schedule"])
          /\ presence' = [presence EXCEPT ![r.user] = TRUE]
          /\ sched' = Superseded(sched, r.user)
          /\ lastNP' = NoNP
    /\ lastCb' = NoCb
    /\ UNCHANGED <<res, config, probe, connected, overlapped>>

\* Faulty variant: a send error is not returned, the clear is scheduled
NowPlayingSendIgnoringError(r) ==
    /\ r.pc = "send"
    /\ \E out \in ResolveOutcomesInOrder(r.track, cache), err \in BOOLEAN :
         /\ cache' = out.store
         /\ inv' = Proceed(r, [Sent(r, err) EXCEPT !.pc = "schedule"])
    /\ presence' = [presence EXCEPT ![r.user] = TRUE]
    /\ sched' = Superseded(sched, r.user)
    /\ lastNP' = NoNP
    /\ lastCb' = NoCb
    /\ UNCHANGED <<res, config, probe, connected, overlapped>>

\* rpc.sendActivity(clientID, username, token, activity)
NowPlayingSend(r) == SendActivity(r, ResolveOutcomesInOrder(r.track, cache))

\* host.SchedulerScheduleOneTime(remainingSeconds, payloadClearActivity,
\* username + "-clear"); its error is logged and NowPlaying returns nil
NowPlayingSchedule(r) ==
    /\ r.pc = "schedule"
    /\ \E ok \in BOOLEAN :
         /\ ok => BagSize(sched) < MaxJobs
         /\ sched' = SchedulerScheduleOneTime(sched, payloadClearActivity,
                                              ClearScheduleID(r.user), ok)
         /\ lastNP' = Returned(Called(r, [op |-> "SchedulerScheduleOneTime",
                                          delay |-> RemainingSeconds(r.track.Duration,
                                                                     r.position),
                                          payload |-> payloadClearActivity,
                                          id |-> ClearScheduleID(r.user),
                                          err |-> ~ok]),
                               "nil")
    /\ inv' = BagRemoveOne(inv, r)
    /\ lastCb' = NoCb
    /\ UNCHANGED <<cache, res, config, probe, connected, presence, overlapped>>

(***************************************************************************)
(* OnCallback.  The handler that is called, the username it is called      *)
(* with, and the error returned.                                           *)
(***************************************************************************)
\* Faulty variant: a schedule id that ends in -clear is taken for a clear
OnCallbackBySuffix(input, herr) ==
    IF HasSuffix(input.ScheduleID, ClearSuffix)
    THEN [handler |-> "clear", username |-> TrimSuffix(input.ScheduleID, ClearSuffix),
          err |-> herr]
    ELSE IF input.Payload = payloadHeartbeat
    THEN [handler |-> "heartbeat", username |-> input.ScheduleID, err |-> herr]
    ELSE [handler |-> "none", username |-> <<>>, err |-> FALSE]

OnCallback(input, herr) ==
    IF input.Payload = payloadHeartbeat
    THEN [handler |-> "heartbeat", username |-> input.ScheduleID, err |-> herr]
    ELSE IF input.Payload = payloadClearActivity
    THEN [handler |-> "clear", username |-> TrimSuffix(input.ScheduleID, ClearSuffix),
          err |-> herr]
    ELSE [handler |-> "none", username |-> <<>>, err |-> FALSE]

\* rpc.handleClearActivityCallback(username) takes the presence down;
\* rpc.handleHeartbeatCallback(username) keeps the session alive
Handle(call) ==
    IF call.handler = "clear" /\ call.username \in Usernames
    THEN presence' = [presence EXCEPT ![call.username] = FALSE]
    ELSE UNCHANGED presence

\* The scheduler fires the pending schedule j; a one-time schedule is gone then
Fire(j, herr) ==
    LET input == [ScheduleID |-> j.id, Payload |-> j.payload,
                  IsRecurring |-> j.recurring]
        call  == OnCallback(input, herr)
    IN  /\ sched' = IF j.recurring THEN sched ELSE BagRemoveOne(sched, j)
        /\ Handle(call)
        /\ lastCb' = [done |-> TRUE, input |-> input, job |-> j, herr |-> herr,
                      call |-> call]
        /\ lastNP' = NoNP
        /\ UNCHANGED <<cache, res, config, probe, connected, inv, overlapped>>

\* The scheduler fires a pending schedule
FireSchedule == \E j \in DOMAIN sched, herr \in BOOLEAN : Fire(j, herr)

\* Callbacks the plugin did not schedule: tags of other features or versions
ForeignCallbacks ==
    { [ScheduleID |-> UserB, Payload |-> "refresh", IsRecurring |-> FALSE] }

ForeignCallback ==
    \E input \in ForeignCallbacks :
        LET call == OnCallback(input, FALSE)
        IN  /\ Handle(call)
            /\ lastCb' = [done |-> TRUE, input |-> input,
                          job |-> Job(input.ScheduleID, input.Payload, input.IsRecurring),
                          herr |-> FALSE, call |-> call]
            /\ lastNP' = NoNP
            /\ UNCHANGED <<cache, res, config, probe, sched, connected, inv, overlapped>>

Next ==
    \/ NowPlayingBegin
    \/ \E r \in DOMAIN inv : NowPlayingCancel(r)
    \/ \E r \in DOMAIN inv : NowPlayingSend(r)
    \/ \E r \in DOMAIN inv : NowPlayingSchedule(r)
    \/ FireSchedule
    \/ ForeignCallback

Spec == Init /\ [][Next]_vars

(***************************************************************************)
(* The host delivers the NowPlaying calls one at a time, and the cache and *)
(* the lookup endpoints may fail in every way.                             *)
(***************************************************************************)
NowPlayingBeginSerial == inv = NoneInProgress /\ NowPlayingBegin

\* rpc.sendActivity(...), resolveSpotifyURL(input.Track) over every fault
NowPlayingSendOverFaults(r) == SendActivity(r, ResolveOutcomes(r.track, cache))

NextSerial ==
    \/ NowPlayingBeginSerial
    \/ \E r \in DOMAIN inv : NowPlayingCancel(r)
    \/ \E r \in DOMAIN inv : NowPlayingSendOverFaults(r)
    \/ \E r \in DOMAIN inv : NowPlayingSchedule(r)
    \/ FireSchedule
    \/ ForeignCallback

SpecSerial == Init /\ [][NextSerial]_vars

(***************************************************************************)
(* OnCallback over the callbacks a scheduler can deliver, whatever         *)
(* presences are on display.                                               *)
(***************************************************************************)
CallbackIDs ==
    { <<>>, UserB, UserBC, UserBC \o ClearSuffix, ClearSuffix,
      <<"c","l","e","a","r">>, <<"b","-","c","l","e","a">> }

CallbackPayloads == {payloadHeartbeat, payloadClearActivity, "refresh", "", "HEARTBEAT"}

CallbackInputs ==
    [ScheduleID : CallbackIDs, Payload : CallbackPayloads, IsRecurring : BOOLEAN]

InitCallback ==
    /\ cache = [k \in CacheKeys |-> NoEntry]
    /\ res = NoRes
    /\ config = ConfigGood
    /\ sched = NoJobs
    /\ connected = {}
    /\ presence \in [Usernames -> BOOLEAN]
    /\ inv = NoneInProgress
    /\ overlapped = {}
    /\ lastNP = NoNP
    /\ lastCb = NoCb
    /\ probe = NoProbe

CallbackDelivered ==
    \E input \in CallbackInputs, herr \in BOOLEAN :
        LET call == OnCallback(input, herr)
        IN  /\ Handle(call)
            /\ lastCb' = [done |-> TRUE, input |-> input,
                          job |-> Job(input.ScheduleID, input.Payload, input.IsRecurring),
                          herr |-> herr, call |-> call]
            /\ UNCHANGED <<cache, res, config, probe, sched, connected, inv, overlapped,
                           lastNP>>

SpecCallback == InitCallback /\ [][CallbackDelivered]_vars

(***************************************************************************)
(* IsAuthorized, over the configurations that can be stored.               *)
(***************************************************************************)
\* _, users, err := getConfig(); _, authorized := users[input.Username]
IsAuthorized(cfg, username) ==
    LET c == getConfig(cfg)
    IN  IF c.err THEN [authorized |-> FALSE, err |-> TRUE]
        ELSE [authorized |-> username \in DOMAIN c.users, err |-> FALSE]

MaxPairs == 2

\* The {username, token} pairs of a stored users array
Pairs == [Username : {<<>>, UserB, UserZ}, Token : {<<>>, Token}]

PairLists == UNION { [1..n -> Pairs] : n \in 0..MaxPairs }

StoredClientIDs ==
    { [ok |-> FALSE, value |-> <<>>], [ok |-> TRUE, value |-> <<>>],
      [ok |-> TRUE, value |-> <<"c">>] }

StoredUsers ==
    { [ok |-> FALSE, kind |-> "empty", items |-> <<>>],
      [ok |-> TRUE, kind |-> "empty", items |-> <<>>],
      [ok |-> TRUE, kind |-> "invalid", items |-> <<>>] }
    \cup { [ok |-> TRUE, kind |-> "array", items |-> l] : l \in PairLists }

StoredConfigs == [clientid : StoredClientIDs, users : StoredUsers]

\* The usernames asked about
Queries == {<<>>, UserB, UserZ, UserBC}

InitAuthorized ==
    /\ cache = [k \in CacheKeys |-> NoEntry]
    /\ res = NoRes
    /\ config \in StoredConfigs
    /\ sched = NoJobs
    /\ connected = {}
    /\ presence = [u \in Usernames |-> FALSE]
    /\ inv = NoneInProgress
    /\ overlapped = {}
    /\ lastNP = NoNP
    /\ lastCb = NoCb
    /\ probe = NoProbe

IsAuthorizedCall ==
    \E u \in Queries :
        /\ probe' = [done |-> TRUE, username |-> u, result |-> IsAuthorized(config, u)]
        /\ UNCHANGED <<cache, res, config, sched, connected, presence, inv, overlapped,
                       lastNP, lastCb>>

SpecAuthorized == InitAuthorized /\ [][IsAuthorizedCall]_vars

(***************************************************************************)
(* Claims about resolveSpotifyURL, checked under SpecResolver.             *)
(***************************************************************************)

\* The calls of one kind in the call that has just returned
CallsOf(op) == SelectSeq(res.calls, LAMBDA c : c.op = op)

\* The positions of the calls of one kind
PositionsOf(op) == {i \in 1..Len(res.calls) : res.calls[i].op = op}

\* The cache read of the call found an entry, without error
ReadHit(r) == r.done /\ ~r.calls[1].err /\ r.calls[1].exists

\* The call has returned without a cache hit
ReadMissed(r) == r.done /\ ~(~r.calls[1].err /\ r.calls[1].exists)

C1_HitStep ==
    ReadHit(res') =>
        /\ res'.calls[1].op = "CacheGetString"
        /\ res'.calls[1].key = KeyOf[res'.track]
        /\ cache[KeyOf[res'.track]].present
        /\ res'.url = cache[KeyOf[res'.track]].value
        /\ Len(res'.calls) = 1
        /\ cache' = cache

\* C1: when the cache read for the track's key succeeds with an entry present,
\* the call returns exactly the cached string and makes no other call: no
\* lookup by id, no lookup by metadata, no cache write (the cache is unchanged),
\* whatever the cached value and whether or not the track has a recording id.
C1_CacheHitServedVerbatim == [][C1_HitStep]_vars

\* A track with a recording id is served a cached search URL
C1_Witness ==
    /\ ReadHit(res)
    /\ IsSearchURL(res.url)
    /\ res.track.MBZRecordingID # <<>>

\* C2: on a miss the chain is walked once, in order: at most one lookup by id,
\* only with a recording id; at most one lookup by metadata, only after the id
\* lookup was skipped or returned no id and only with primary artist and title
\* non-empty; lookups lie between the read and the write, id before metadata;
\* the search URL is returned exactly when no lookup yielded an id.
C2_FallbackChainOrder ==
    ReadMissed(res) =>
        LET mb == CallsOf("spotify-id-from-mbid")
            me == CallsOf("spotify-id-from-metadata")
            t  == res.track
        IN  /\ Len(mb) <= 1
            /\ Len(mb) = 1 => t.MBZRecordingID # <<>>
            /\ Len(me) <= 1
            /\ Len(me) = 1 =>
                 /\ Len(mb) = 0 \/ mb[1].id = <<>>
                 /\ PrimaryOf[t] # <<>>
                 /\ t.Title # <<>>
            /\ \A i \in PositionsOf("spotify-id-from-mbid") :
                 /\ i > 1
                 /\ \A j \in PositionsOf("spotify-id-from-metadata") : i < j
            /\ \A j \in PositionsOf("spotify-id-from-metadata") : j > 1
            /\ \A w \in PositionsOf("CacheSetString") :
                 \A i \in PositionsOf("spotify-id-from-mbid")
                            \cup PositionsOf("spotify-id-from-metadata") : i < w
            /\ IsSearchURL(res.url) <=>
                 /\ \A i \in 1..Len(mb) : mb[i].id = <<>>
                 /\ \A i \in 1..Len(me) : me[i].id = <<>>

\* The id lookup came back empty and the metadata lookup then yielded the id
C2_Witness ==
    /\ ReadMissed(res)
    /\ Len(CallsOf("spotify-id-from-mbid")) = 1
    /\ CallsOf("spotify-id-from-mbid")[1].id = <<>>
    /\ Len(CallsOf("spotify-id-from-metadata")) = 1
    /\ CallsOf("spotify-id-from-metadata")[1].id # <<>>
    /\ IsDirectURL(res.url)

\* The URL kind and the TTL of a write or of a stored entry go together
KindMatchesTTL(value, ttl) ==
    /\ IsDirectURL(value) \/ IsSearchURL(value)
    /\ IsDirectURL(value) => ttl = 30 * 24 * 60 * 60
    /\ IsSearchURL(value) => ttl = 4 * 60 * 60

\* C3: every cache write pairs the URL kind with its TTL tier: a direct URL is
\* written with 30 days, a search URL with 4 hours, never the other way round;
\* so is every entry the cache holds.
C3_TTLMatchesURLKind ==
    /\ res.done =>
         \A i \in PositionsOf("CacheSetString") :
             KindMatchesTTL(res.calls[i].value, res.calls[i].ttl)
    /\ \A k \in CacheKeys : cache[k].present => KindMatchesTTL(cache[k].value, cache[k].ttl)

\* A search URL has just been written while a direct URL is stored elsewhere
C3_Witness ==
    /\ res.done
    /\ \E i \in PositionsOf("CacheSetString") :
         IsSearchURL(res.calls[i].value) /\ res.calls[i].ok
    /\ \E k \in CacheKeys : cache[k].present /\ IsDirectURL(cache[k].value)

\* C4: a call that does not return from a cache hit attempts exactly one cache
\* write, as its last call, under the key it read and with the URL it returns;
\* when the write succeeds the cache then holds that URL under the track's key.
C4_OneWriteOfReturnedURL ==
    ReadMissed(res) =>
        LET w == CallsOf("CacheSetString")
        IN  /\ Len(w) = 1
            /\ res.calls[Len(res.calls)].op = "CacheSetString"
            /\ w[1].key = res.calls[1].key
            /\ w[1].key = KeyOf[res.track]
            /\ w[1].value = res.url
            /\ w[1].ok =>
                 /\ cache[KeyOf[res.track]].present
                 /\ cache[KeyOf[res.track]].value = res.url
                 /\ cache[KeyOf[res.track]].ttl = w[1].ttl

\* A direct URL from the id lookup has been written and is now in the cache
C4_Witness ==
    /\ ReadMissed(res)
    /\ IsDirectURL(res.url)
    /\ CallsOf("CacheSetString")[1].ok
    /\ cache[KeyOf[res.track]].value = res.url

\* The answer a lookup of the call got, or NoResponse if it was not sent
AnswerTo(op) == IF CallsOf(op) = <<>> THEN NoResponse ELSE CallsOf(op)[1].resp

\* A response that carries no usable id
NoUsableID(resp) ==
    \/ resp.status < 200
    \/ resp.status > 299
    \/ ~resp.body.json
    \/ \A i \in 1..Len(resp.body.results) :
         \A j \in 1..Len(resp.body.results[i]) : resp.body.results[i][j] = <<>>

OpsAt(calls, op) == {k \in 1..Len(calls) : calls[k].op = op}

\* The stored users value holds a pair for the username with a token
HasConfiguredToken(u) ==
    /\ config.users.ok
    /\ config.users.kind = "array"
    /\ u # <<>>
    /\ \E k \in 1..Len(config.users.items) :
         config.users.items[k].Username = u /\ config.users.items[k].Token # <<>>

\* The number of pending clear callbacks of a user
ClearCount(u) == SumCounts(sched, {j \in DOMAIN sched : IsClearOf(j, u)})

C6_Step ==
    /\ (lastNP'.done /\ ~HasConfiguredToken(lastNP'.user)) =>
         /\ lastNP'.result = "NotAuthorized"
         /\ lastNP'.calls = <<>>
         /\ UNCHANGED <<cache, sched, connected, presence, inv>>
    /\ \A r \in DOMAIN inv' : HasConfiguredToken(r.user)

\* C6: a NowPlaying call for a username without a configured token returns
\* the not-authorized error having made no call at all (no connect, no
\* schedule cancel, no cache or lookup access, no send, no schedule), and
\* leaves the cache, the pending schedules, the sessions and the presences
\* as they were; no invocation for such a username is ever in progress.
C6_UnauthorizedHasNoEffect == [][C6_Step]_vars

C6_Witness ==
    /\ lastNP.done
    /\ lastNP.user = UserZ
    /\ lastNP.result = "NotAuthorized"
    /\ \E j \in DOMAIN sched : j.payload = payloadClearActivity

\* The calls of an invocation that sent its activity and returned nil
SentInOrder(r) ==
    LET cancels   == OpsAt(r.calls, "SchedulerCancelSchedule")
        sends     == OpsAt(r.calls, "sendActivity")
        schedules == OpsAt(r.calls, "SchedulerScheduleOneTime")
        last      == r.calls[Len(r.calls)]
    IN  /\ Cardinality(cancels) = 1
        /\ Cardinality(sends) = 1
        /\ schedules = {Len(r.calls)}
        /\ \A c \in cancels, d \in sends : c < d /\ d < Len(r.calls)
        /\ \A c \in cancels : r.calls[c].id = r.user \o ClearSuffix
        /\ last.id = r.user \o ClearSuffix
        /\ last.payload = payloadClearActivity
        /\ last.delay = r.track.Duration - r.position + 5

\* C7: a NowPlaying call that returns nil has issued one cancel of
\* <username>-clear, then one send, then as its last call exactly one
\* one-time schedule of <username>-clear with the clear-activity tag and
\* delay duration - position + 5; a call that is still running or that
\* returned an error has issued no schedule call.
C7_CancelSendScheduleInOrder ==
    /\ lastNP.done =>
         IF lastNP.result = "nil" THEN SentInOrder(lastNP)
         ELSE OpsAt(lastNP.calls, "SchedulerScheduleOneTime") = {}
    /\ \A r \in DOMAIN inv : OpsAt(r.calls, "SchedulerScheduleOneTime") = {}

C7_Witness ==
    /\ lastNP.done
    /\ lastNP.result = "nil"
    /\ lastNP.user = UserB
    /\ lastNP.calls[Len(lastNP.calls)].delay = 175
    /\ \E j \in DOMAIN sched : IsClearOf(j, UserB) /\ ~j.stale

ClearFired ==
    /\ lastCb.done
    /\ lastCb.call.handler = "clear"
    /\ lastCb.call.username \notin overlapped

OwnedBy(j, u) ==
    \/ j.payload = payloadHeartbeat /\ j.id = u
    \/ j.payload = payloadClearActivity /\ j.id = u \o ClearSuffix

OwnedCount(jobs, u) == SumCounts(jobs, {j \in DOMAIN jobs : OwnedBy(j, u)})

\* How many copies of an invocation are in progress
Copies(bag, r) == IF r \in DOMAIN bag THEN bag[r] ELSE 0

C10_Step ==
    \A r \in DOMAIN inv \cup DOMAIN inv' :
        Copies(inv', r) # Copies(inv, r) =>
            \A b \in Usernames \ {r.user} : OwnedCount(sched', b) = OwnedCount(sched, b)

\* C10 as stated: a step of a NowPlaying call for one username leaves the
\* pending schedules of every other username (heartbeat, id B; clear, id
\* B-clear) as they were.
C10_OtherUsersSchedulesUntouched == [][C10_Step]_vars

\* The client id is stored and not empty
ClientConfigured == config.clientid.ok /\ config.clientid.value # <<>>

\* The username is in the configured user-to-token mapping
Authorized(u) == ClientConfigured /\ HasConfiguredToken(u)

\* Some call of the kind among the calls returned an error
Failed(calls, op) == \E k \in OpsAt(calls, op) : calls[k].err

\* C11: for an authorized user, a NowPlaying call whose connect failed
\* returns the retryable error having made no other call (no schedule
\* cancel, no URL resolution, no send, no schedule creation); a call whose
\* send failed returns the retryable error without a schedule creation call.
C11_ConnectOrSendFailureIsRetryable ==
    (lastNP.done /\ Authorized(lastNP.user)) =>
        /\ Failed(lastNP.calls, "connect") =>
             /\ lastNP.result = "RetryLater"
             /\ Len(lastNP.calls) = 1
        /\ Failed(lastNP.calls, "sendActivity") =>
             /\ lastNP.result = "RetryLater"
             /\ OpsAt(lastNP.calls, "SchedulerScheduleOneTime") = {}

C11_Witness ==
    /\ lastNP.done
    /\ lastNP.user = UserB
    /\ Failed(lastNP.calls, "sendActivity")
    /\ lastNP.result = "RetryLater"
    /\ OpsAt(lastNP.calls, "SchedulerCancelSchedule") # {}
    /\ ClearCount(UserB) = 1

\* Some call of the kind is among the calls and none returned an error
Succeeded(calls, op) == OpsAt(calls, op) # {} /\ ~Failed(calls, op)

\* Every call of the first kind comes before every call of the second kind
Before(calls, first, second) ==
    \A a \in OpsAt(calls, first), b \in OpsAt(calls, second) : a < b

\* C12: for an authorized user, NowPlaying returns nil exactly when connect
\* and send both succeeded, whatever the schedule cancel, the cache read and
\* write, the lookups and the schedule creation did; once connect has
\* succeeded the cancel and then the send are attempted, and once the send
\* has succeeded the schedule creation is attempted.
C12_ResultDependsOnConnectAndSendOnly ==
    (lastNP.done /\ Authorized(lastNP.user)) =>
        /\ lastNP.result \in {"nil", "RetryLater"}
        /\ lastNP.result = "nil" <=>
             Succeeded(lastNP.calls, "connect") /\ Succeeded(lastNP.calls, "sendActivity")
        /\ Succeeded(lastNP.calls, "connect") =>
             /\ OpsAt(lastNP.calls, "SchedulerCancelSchedule") # {}
             /\ OpsAt(lastNP.calls, "sendActivity") # {}
             /\ Before(lastNP.calls, "SchedulerCancelSchedule", "sendActivity")
        /\ Succeeded(lastNP.calls, "sendActivity") =>
             OpsAt(lastNP.calls, "SchedulerScheduleOneTime") # {}

\* Success after a failed cancel, a failed cache write and a failed schedule
C12_Witness ==
    /\ lastNP.done
    /\ lastNP.user = UserB
    /\ lastNP.result = "nil"
    /\ Failed(lastNP.calls, "SchedulerScheduleOneTime")
    /\ \E j \in DOMAIN sched : IsClearOf(j, UserB) /\ j.missed
    /\ ~cache[KeyOf[lastNP.track]].present

\* The client id is missing, or the users value is missing or unparsable
ConfigLoadFails ==
    \/ ~ClientConfigured
    \/ ~config.users.ok
    \/ config.users.kind = "invalid"

\* C13 as stated: with the client id missing or the users value missing or
\* unparsable, NowPlaying returns the retryable error
C13_ConfigFailureIsRetryable ==
    (lastNP.done /\ ConfigLoadFails) => lastNP.result = "RetryLater"

\* C13, amended: with the client id missing or the users value missing or
\* unparsable, getConfig returns no users and no error, and NowPlaying
\* returns the not-authorized error for every username, having made no call.
C13_ConfigFailureIsNotAuthorized ==
    (lastNP.done /\ ConfigLoadFails) =>
        /\ lastNP.result = "NotAuthorized"
        /\ lastNP.calls = <<>>

C13_Witness ==
    /\ lastNP.done
    /\ lastNP.user = UserB
    /\ config = ConfigBadUsers
    /\ lastNP.result = "NotAuthorized"

\* C14: IsAuthorized never returns an error, and returns true exactly when
\* the client id is stored and not empty and the stored users value is an
\* array holding a pair with this username, not empty, and a token that is
\* not empty; with the client id or the users value missing, empty or
\* unparsable, or no such pair, it returns false for every username.
C14_AuthorizedIffConfiguredPair ==
    probe.done =>
        /\ ~probe.result.err
        /\ probe.result.authorized <=> Authorized(probe.username)

\* Authorized by one pair while another pair of the same user has no token
C14_Witness ==
    /\ probe.done
    /\ probe.username = UserB
    /\ probe.result.authorized
    /\ \E k \in 1..Len(config.users.items) :
         config.users.items[k] = [Username |-> UserB, Token |-> <<>>]

\* The id ends in -clear
EndsInClear(id) ==
    /\ Len(id) >= Len(ClearSuffix)
    /\ SubSeq(id, Len(id) - Len(ClearSuffix) + 1, Len(id)) = ClearSuffix

\* The username is the id with one trailing -clear taken off, if it has one
StrippedOnce(id, username) ==
    IF EndsInClear(id) THEN username \o ClearSuffix = id ELSE username = id

C15_Step ==
    lastCb'.done =>
        LET input == lastCb'.input
            call  == lastCb'.call
        IN  /\ input.Payload = payloadHeartbeat =>
                 call.handler = "heartbeat" /\ call.username = input.ScheduleID
            /\ input.Payload = payloadClearActivity =>
                 call.handler = "clear" /\ StrippedOnce(input.ScheduleID, call.username)
            /\ input.Payload \notin {payloadHeartbeat, payloadClearActivity} =>
                 /\ call.handler = "none"
                 /\ UNCHANGED <<cache, config, sched, connected, presence, inv>>
            /\ call.err <=> (call.handler # "none" /\ lastCb'.herr)

\* C15: OnCallback chooses the handler by the payload tag alone: heartbeat
\* calls the heartbeat handler with the schedule id as username, whatever
\* the id ends in; clear-activity calls the clear handler with the schedule
\* id less one trailing -clear; any other tag calls no handler, changes no
\* state and returns nil.  OnCallback returns an error exactly when the
\* handler it called returned one.
C15_DispatchByPayloadOnly == [][C15_Step]_vars

\* A heartbeat whose id ends in -clear, after which the presence is still up
C15_Witness ==
    /\ lastCb.done
    /\ lastCb.input.Payload = payloadHeartbeat
    /\ lastCb.input.ScheduleID = UserBC
    /\ lastCb.call = [handler |-> "heartbeat", username |-> UserBC, err |-> TRUE]
    /\ presence[UserB]

(***************************************************************************)
(* Expiry of cached URLs, with the expiry that precedes a call on record.  *)
(***************************************************************************)
\* What res holds after the host dropped the entry e of key k
Expired(k, e) == [done |-> FALSE, expired |-> k, search |-> IsSearchURL(e.value)]

\* The expiry the step before was, or NoRes
JustExpired == IF ~res.done /\ res # NoRes THEN res ELSE NoRes

\* The TTL of an entry runs out and the host drops it; res says which
CacheExpireNoted ==
    \E k \in CacheKeys :
        /\ cache[k].present
        /\ cache' = [cache EXCEPT ![k] = NoEntry]
        /\ res' = Expired(k, cache[k])
        /\ UNCHANGED <<presenceVars, lastNP, lastCb>>

\* The tracks called for: two that share a key, one by id and metadata and one
\* by metadata only, and one to which no lookup applies
ExpiryTracks == {TrkKarma, TrkFeat, TrkBlank}

\* A direct call of resolveSpotifyURL; the result says which expiry it follows
ResolveCallNoted ==
    \E t \in ExpiryTracks :
      \E out \in ResolveOutcomes(t, cache) :
        /\ cache' = out.store
        /\ res' = [done |-> TRUE, track |-> t, url |-> out.url, calls |-> out.calls,
                   after |-> JustExpired]
        /\ UNCHANGED <<presenceVars, lastNP, lastCb>>

NextExpiry == ResolveCallNoted \/ CacheExpireNoted

SpecExpiry == InitResolver /\ [][NextExpiry]_vars

\* The calls of one kind in a list of calls
Among(calls, op) == SelectSeq(calls, LAMBDA c : c.op = op)

\* The call follows the expiry of a search URL stored under its track's key
AfterFallbackExpiry(r) ==
    /\ r.done
    /\ r.after # NoRes
    /\ r.after.expired = KeyOf[r.track]
    /\ r.after.search

C16_Step ==
    res'.done =>
        LET t  == res'.track
            k  == KeyOf[t]
            mb == Among(res'.calls, "spotify-id-from-mbid")
            me == Among(res'.calls, "spotify-id-from-metadata")
            w  == Among(res'.calls, "CacheSetString")
        IN  /\ \A q \in CacheKeys :
                 cache'[q].present /\ IsSearchURL(cache'[q].value)
                     => cache'[q].ttl = 4 * 60 * 60
            /\ cache[k].present /\ IsSearchURL(cache[k].value) /\ ReadHit(res') =>
                 /\ res'.url = cache[k].value
                 /\ Len(res'.calls) = 1
                 /\ cache' = cache
            /\ ~cache[k].present =>
                 /\ ReadMissed(res')
                 /\ Len(mb) = (IF t.MBZRecordingID # <<>> THEN 1 ELSE 0)
                 /\ Len(me) = (IF /\ Len(mb) = 0 \/ mb[1].id = <<>>
                                  /\ PrimaryOf[t] # <<>>
                                  /\ t.Title # <<>>
                               THEN 1 ELSE 0)
                 /\ IsDirectURL(res'.url) <=>
                      \/ Len(mb) = 1 /\ mb[1].id # <<>>
                      \/ Len(me) = 1 /\ me[1].id # <<>>
                 /\ Len(w) = 1
                 /\ IsDirectURL(res'.url) /\ w[1].ok =>
                      cache'[k] = [present |-> TRUE, value |-> res'.url,
                                   ttl |-> 30 * 24 * 60 * 60]
                 /\ ~w[1].ok => ~cache'[k].present
            /\ AfterFallbackExpiry(res') => ~cache[k].present

\* C16: a cached search URL always carries the 4-hour TTL and a hit on it makes
\* no lookup and leaves the cache as it is; once the host has dropped the entry
\* the next call for the key walks the lookups again (by id with a recording id,
\* by metadata if that gave no id and primary artist and title are non-empty),
\* and an id found then is stored as the direct URL with the 30-day TTL.
C16_FallbackEntryExpiresAndIsReplaced == [][C16_Step]_vars

\* The first call after a search URL expired found an id and stored the direct URL
C16_Witness ==
    /\ AfterFallbackExpiry(res)
    /\ IsDirectURL(res.url)
    /\ cache[KeyOf[res.track]] = [present |-> TRUE, value |-> res.url,
                                  ttl |-> 30 * 24 * 60 * 60]

(***************************************************************************)
(* The presence lifecycle under a fair scheduler: calls are delivered one  *)
(* at a time and a pending clear callback is fired once its delay is over. *)
(***************************************************************************)
\* The scheduler fires a pending clear callback of the user
FireClear(u) ==
    \E j \in DOMAIN sched, herr \in BOOLEAN : IsClearOf(j, u) /\ Fire(j, herr)

NextLive ==
    \/ NowPlayingBeginSerial
    \/ \E r \in DOMAIN inv : NowPlayingCancel(r)
    \/ \E r \in DOMAIN inv : NowPlayingSend(r)
    \/ \E r \in DOMAIN inv : NowPlayingSchedule(r)
    \/ FireSchedule
    \/ ForeignCallback

\* A one-time schedule that stays pending is fired in the end
FairScheduler == \A u \in Usernames : WF_vars(FireClear(u))

SpecLive == InitResolver /\ [][NextLive]_vars /\ FairScheduler

\* A NowPlaying call for the user has just returned nil, its schedule created
ScheduledFor(u) ==
    /\ lastNP.done
    /\ lastNP.user = u
    /\ lastNP.result = "nil"
    /\ Succeeded(lastNP.calls, "SchedulerScheduleOneTime")

\* A NowPlaying call for the user is in progress or has just returned an error
Arrived(u) ==
    \/ \E r \in DOMAIN inv : r.user = u
    \/ lastNP.done /\ lastNP.user = u /\ lastNP.result # "nil"

\* The clear handler has just been invoked for the user
ClearInvoked(u) ==
    /\ lastCb.done
    /\ lastCb.call.handler = "clear"
    /\ lastCb.call.username = u

\* A pending clear callback of the user has been the target of a failed cancel
LeftBehind(u) == \E j \in DOMAIN sched : IsClearOf(j, u) /\ j.missed

\* A clear callback that fires invokes the clear handler once, for its owner,
\* and is pending once less
C17_FireStep ==
    \A u \in Usernames :
        (lastCb'.done /\ IsClearOf(lastCb'.job, u)) =>
            /\ ClearInvoked(u)'
            /\ ClearCount(u)' = ClearCount(u) - 1
            /\ ~presence'[u]

Fields == { <<>>, <<"a">>, <<"A">>, <<NUL>>, <<"a", NUL>>, <<NUL, "a">> }

Triples == Fields \X Fields \X Fields

\* The lower-cased fields of a triple
LowerOf(x) == <<ToLower(x[1]), ToLower(x[2]), ToLower(x[3])>>

InitKey ==
    /\ cache = [k \in CacheKeys |-> NoEntry]
    /\ res = NoRes
    /\ config = ConfigGood
    /\ sched = NoJobs
    /\ connected = {}
    /\ presence = [u \in Usernames |-> FALSE]
    /\ inv = NoneInProgress
    /\ overlapped = {}
    /\ lastNP = NoNP
    /\ lastCb = NoCb
    /\ probe \in [done : {FALSE}, first : Triples, second : Triples]

\* spotifyCacheKey is called for the two triples
spotifyCacheKeyCalls ==
    /\ ~probe.done
    /\ probe' = [done   |-> TRUE,
                 first  |-> probe.first,
                 second |-> probe.second,
                 keys   |-> << spotifyCacheKey(probe.first[1], probe.first[2],
                                               probe.first[3]),
                               spotifyCacheKey(probe.second[1], probe.second[2],
                                               probe.second[3]) >>]
    /\ UNCHANGED <<cache, res, config, sched, connected, presence, inv, overlapped,
                   lastNP, lastCb>>

SpecKey == InitKey /\ [][spotifyCacheKeyCalls]_vars

\* C18: two triples receive different keys whenever any of their fields
\* differs after lower-casing, and equal keys when none does; a triple and
\* its lower-cased triple thus receive the same key.
C18_KeyIsInjectiveModuloCase ==
    probe.done =>
        (probe.keys[1] = probe.keys[2] <=> LowerOf(probe.first) = LowerOf(probe.second))

(***************************************************************************)
(* The displayed presence and its pending clear callback, with calls       *)
(* delivered one at a time and a scheduler that creates every schedule it  *)
(* is asked for.                                                           *)
(***************************************************************************)
\* host.SchedulerScheduleOneTime(...) returns without error
NowPlayingScheduleCreated(r) ==
    /\ NowPlayingSchedule(r)
    /\ Succeeded(lastNP'.calls, "SchedulerScheduleOneTime")

NextDisplay ==
    \/ NowPlayingBeginSerial
    \/ \E r \in DOMAIN inv : NowPlayingCancel(r)
    \/ \E r \in DOMAIN inv : NowPlayingSend(r)
    \/ \E r \in DOMAIN inv : NowPlayingScheduleCreated(r)
    \/ FireSchedule
    \/ ForeignCallback

SpecDisplay == InitResolver /\ [][NextDisplay]_vars

\* C19: while no schedule creation fails, a user whose presence is on display
\* and who has no NowPlaying call in progress has a clear callback pending;
\* a NowPlaying call that failed has left that callback in place.
C19_DisplayedPresenceHasPendingClear ==
    \A u \in Usernames :
        (presence[u] /\ \A r \in DOMAIN inv : r.user # u) => ClearCount(u) >= 1

(***************************************************************************)
(* The search URL a call returns, checked under SpecResolver.              *)
(***************************************************************************)
\* The search URL built from the track's own raw artist string and title
OwnSearchURL(t) == buildSpotifySearchURL(t.Title, t.Artist)

\* C20 as stated: a search URL that a call returns is the one built from the
\* track's own raw artist string and title
C20_SearchURLIsOwn ==
    (res.done /\ IsSearchURL(res.url)) => res.url = OwnSearchURL(res.track)

\* C20, amended: a search URL returned by a call that did not return from a
\* cache hit is built from the track's own raw artist string and title (the
\* bare search root if both are empty); a search URL returned from a cache
\* hit is the one built for some track with the same cache key.
C20_SearchURLIsOwnUnlessCached ==
    (res.done /\ IsSearchURL(res.url)) =>
        /\ ReadMissed(res) =>
             /\ res.url = OwnSearchURL(res.track)
             /\ (res.track.Title = <<>> /\ res.track.Artist = <<>>)
                    => res.url = <<SearchRoot>>
        /\ ReadHit(res) =>
             \E t \in Tracks :
                 KeyOf[t] = KeyOf[res.track] /\ res.url = OwnSearchURL(t)

\* "R ft. G" is served from the cache the search URL built for "R"
C20_Witness ==
    /\ ReadHit(res)
    /\ res.track = TrkFeat
    /\ res.url = OwnSearchURL(TrkKarma)
    /\ res.url # OwnSearchURL(TrkFeat)

(***************************************************************************)
(* The timestamps and the clear delay of NowPlaying as functions of the    *)
(* clock, the track duration and the playback position.  An int64 is held  *)
(* in two limbs, hi * Limb + lo with 0 <= lo < Limb; the values that occur *)
(* stay far below 2^63, where int64 arithmetic is exact.                   *)
(***************************************************************************)
Limb == 1000000

\* int64(x) for an x of 32 bits
Wide(x) == [hi |-> x \div Limb, lo |-> x % Limb]

\* a + b
WideAdd(a, b) ==
    [hi |-> a.hi + b.hi + ((a.lo + b.lo) \div Limb), lo |-> (a.lo + b.lo) % Limb]

\* a - b
WideSub(a, b) ==
    [hi |-> (a.hi - b.hi) + ((a.lo - b.lo) \div Limb), lo |-> (a.lo - b.lo) % Limb]

\* a * 1000
WideMul1000(a) ==
    [hi |-> a.hi * 1000 + ((a.lo * 1000) \div Limb), lo |-> (a.lo * 1000) % Limb]

\* a / 1000, for the whole seconds of a millisecond count
WideDiv1000(a) ==
    [hi |-> a.hi \div 1000, lo |-> (a.hi % 1000) * 1000 + (a.lo \div 1000)]

\* a >= b
WideGeq(a, b) == a.hi > b.hi \/ (a.hi = b.hi /\ a.lo >= b.lo)

\* startTime := (now - int64(input.Position)) * 1000
startTime(now, position) == WideMul1000(WideSub(Wide(now), Wide(position)))

\* endTime := startTime + int64(input.Track.Duration)*1000
endTime(now, position, duration) ==
    WideAdd(startTime(now, position), WideMul1000(Wide(duration)))

\* time.Now().Unix(): the epoch, a present-day clock, the last 32-bit second
Nows == {0, 1700000000, MaxInt32}

\* input.Track.Duration in whole seconds, from no duration to the largest int32
Durations == {0, 10, 200, 3600, MaxInt32 - 5, MaxInt32}

\* input.Position in seconds: before, at and after the end of the track
Positions == {0, 5, 6, 30, 200, 205, 206, MaxInt32}

InitTiming ==
    /\ cache = [k \in CacheKeys |-> NoEntry]
    /\ res = NoRes
    /\ config = ConfigGood
    /\ sched = NoJobs
    /\ connected = {}
    /\ presence = [u \in Usernames |-> FALSE]
    /\ inv = NoneInProgress
    /\ overlapped = {}
    /\ lastNP = NoNP
    /\ lastCb = NoCb
    /\ probe \in [done : {FALSE}, now : Nows, duration : Durations,
                  position : Positions]

\* The timestamps sent and the delay given to the scheduler by one NowPlaying
NowPlayingTiming ==
    /\ ~probe.done
    /\ probe' = [done     |-> TRUE,
                 now      |-> probe.now,
                 duration |-> probe.duration,
                 position |-> probe.position,
                 startTime |-> startTime(probe.now, probe.position),
                 endTime   |-> endTime(probe.now, probe.position, probe.duration),
                 remainingSeconds |-> RemainingSeconds(probe.duration, probe.position)]
    /\ UNCHANGED <<cache, res, config, sched, connected, presence, inv, overlapped,
                   lastNP, lastCb>>

SpecTiming == InitTiming /\ [][NowPlayingTiming]_vars

\* C21: the start timestamp is (now - position) * 1000, the end timestamp
\* lies duration * 1000 after it and not before it, and the clock reading
\* plus the delay given to the scheduler is the end timestamp in seconds
\* plus 5.
C21_TimestampsAndTimerAgree ==
    probe.done =>
        /\ probe.startTime = WideMul1000(WideSub(Wide(probe.now), Wide(probe.position)))
        /\ WideSub(probe.endTime, probe.startTime) = WideMul1000(Wide(probe.duration))
        /\ WideGeq(probe.endTime, probe.startTime)
        /\ WideAdd(Wide(probe.now), Wide(probe.remainingSeconds))
             = WideAdd(WideDiv1000(probe.endTime), Wide(5))

\* C22: the delay of every schedule creation call that a NowPlaying call made
\* is strictly positive.
C22_ClearDelayIsPositive ==
    lastNP.done =>
        \A k \in OpsAt(lastNP.calls, "SchedulerScheduleOneTime") :
            lastNP.calls[k].delay > 0

(***************************************************************************)
(* The schedule id of the clear callback, from NowPlaying to OnCallback,   *)
(* as a function of the username.                                          *)
(***************************************************************************)
\* The most parts a username is put together from
MaxParts == 3

\* What usernames are put together from: letters, a hyphen, and "-clear"
NameParts == { <<"b">>, <<"r">>, <<"-">>, ClearSuffix }

RECURSIVE NamesOf(_)
NamesOf(n) ==
    IF n = 0 THEN { <<>> }
    ELSE NamesOf(n - 1) \cup { a \o p : a \in NamesOf(n - 1), p \in NameParts }

\* input.Username
RoundTripNames == NamesOf(MaxParts)

InitRoundTrip ==
    /\ cache = [k \in CacheKeys |-> NoEntry]
    /\ res = NoRes
    /\ config = ConfigGood
    /\ sched = NoJobs
    /\ connected = {}
    /\ presence = [u \in Usernames |-> FALSE]
    /\ inv = NoneInProgress
    /\ overlapped = {}
    /\ lastNP = NoNP
    /\ lastCb = NoCb
    /\ probe \in [done : {FALSE}, username : RoundTripNames]

\* NowPlaying creates the clear callback of the username and the scheduler
\* delivers it to OnCallback
ClearRoundTrip ==
    /\ ~probe.done
    /\ \E herr \in BOOLEAN :
         LET job   == Job(ClearScheduleID(probe.username), payloadClearActivity, FALSE)
             input == [ScheduleID |-> job.id, Payload |-> job.payload,
                       IsRecurring |-> job.recurring]
         IN  probe' = [done |-> TRUE, username |-> probe.username, input |-> input,
                       call |-> OnCallback(input, herr)]
    /\ UNCHANGED <<cache, res, config, sched, connected, presence, inv, overlapped,
                   lastNP, lastCb>>

SpecRoundTrip == InitRoundTrip /\ [][ClearRoundTrip]_vars

\* C23: the clear callback that NowPlaying creates for a username, delivered
\* to OnCallback, invokes the clear handler with exactly that username, also
\* when the username ends in -clear or has -clear inside.
C23_ScheduleIDRoundTrip ==
    probe.done =>
        /\ probe.call.handler = "clear"
        /\ probe.call.username = probe.username

\* The round trip of a username that ends in -clear twice over
C23_Witness ==
    /\ probe.done
    /\ probe.username = <<"b">> \o ClearSuffix \o ClearSuffix
    /\ probe.input.ScheduleID = <<"b">> \o ClearSuffix \o ClearSuffix \o ClearSuffix
    /\ probe.call.username = probe.username

(***************************************************************************)
(* parsePrimaryArtist as a function of the raw artist string.              *)
(***************************************************************************)
\* The most pieces a raw artist string is put together from
MaxArtistParts == 4

\* What raw artist strings are put together from: a name and the separators
ArtistParts ==
    { <<"A">>,
      <<" ","f","t","."," ">>,
      <<" ","f","e","a","t","."," ">>,
      <<" ","F","e","a","t","u","r","i","n","g"," ">>,
      <<" ","&"," ">>,
      <<" ","/"," ">> }

RECURSIVE ArtistsOf(_)
ArtistsOf(n) ==
    IF n = 0 THEN { <<>> }
    ELSE ArtistsOf(n - 1) \cup { a \o p : a \in ArtistsOf(n - 1), p \in ArtistParts }

\* The artist argument
RawArtists == ArtistsOf(MaxArtistParts)

InitArtist ==
    /\ cache = [k \in CacheKeys |-> NoEntry]
    /\ res = NoRes
    /\ config = ConfigGood
    /\ sched = NoJobs
    /\ connected = {}
    /\ presence = [u \in Usernames |-> FALSE]
    /\ inv = NoneInProgress
    /\ overlapped = {}
    /\ lastNP = NoNP
    /\ lastCb = NoCb
    /\ probe \in [done : {FALSE}, raw : RawArtists]

\* parsePrimaryArtist is called with the string
parsePrimaryArtistCall ==
    /\ ~probe.done
    /\ probe' = [done |-> TRUE, raw |-> probe.raw,
                 result |-> parsePrimaryArtist(probe.raw)]
    /\ UNCHANGED <<cache, res, config, sched, connected, presence, inv, overlapped,
                   lastNP, lastCb>>

SpecArtist == InitArtist /\ [][parsePrimaryArtistCall]_vars

\* The reference: the featuring separator that appears first in the string
\* decides the split, whichever of the three it is; then " & ", then " / "
ReferenceSplit(raw) ==
    LET artist == TrimSpace(raw)
        lower  == ToLower(artist)
        feats  == {Index(lower, FeatSeps[k]) : k \in 1..Len(FeatSeps)} \ {-1}
        first  == CHOOSE i \in feats : \A j \in feats : i <= j
        amp    == Index(artist, CoSeps[1])
        slash  == Index(artist, CoSeps[2])
    IN  IF artist = <<>> THEN << <<>>, <<>> >>
        ELSE IF feats # {}
        THEN << TrimSpace(SubSeq(artist, 1, first)),
                TrimSpace(SubSeq(artist, first + 1, Len(artist))) >>
        ELSE IF amp >= 0 THEN << TrimSpace(SubSeq(artist, 1, amp)), <<>> >>
        ELSE IF slash >= 0 THEN << TrimSpace(SubSeq(artist, 1, slash)), <<>> >>
        ELSE << artist, <<>> >>

\* C24: parsePrimaryArtist returns what the reference returns: the split is at
\* the featuring separator that appears first in the string, before any split
\* at " & " or " / "; else at the first " & ", else at the first " / "; else
\* the whole trimmed string; the empty pair for a blank string.
C24_MatchesReference ==
    probe.done => probe.result = ReferenceSplit(probe.raw)

(***************************************************************************)
(* parseSpotifyID as a function of the response body.                      *)
(***************************************************************************)
\* The most result objects in a body
MaxResults == 2

\* The most ids in one result object
MaxIDs == 2

\* A spotify_track_ids entry: empty, or one of two ids
IDs == { <<>>, IdX, IdY }

RECURSIVE SeqsUpTo(_, _)
SeqsUpTo(S, n) ==
    IF n = 0 THEN { <<>> }
    ELSE SeqsUpTo(S, n - 1) \cup { Append(q, x) : q \in SeqsUpTo(S, n - 1), x \in S }

\* The spotify_track_ids of one result object; empty when the field is absent
IDLists == SeqsUpTo(IDs, MaxIDs)

\* The bodies: one that json.Unmarshal rejects, and every decoded array
Bodies == { BadBody } \cup { Body(r) : r \in SeqsUpTo(IDLists, MaxResults) }

InitParse ==
    /\ cache = [k \in CacheKeys |-> NoEntry]
    /\ res = NoRes
    /\ config = ConfigGood
    /\ sched = NoJobs
    /\ connected = {}
    /\ presence = [u \in Usernames |-> FALSE]
    /\ inv = NoneInProgress
    /\ overlapped = {}
    /\ lastNP = NoNP
    /\ lastCb = NoCb
    /\ probe \in [done : {FALSE}, body : Bodies]

\* parseSpotifyID is called with the body
parseSpotifyIDCall ==
    /\ ~probe.done
    /\ probe' = [done |-> TRUE, body |-> probe.body, id |-> parseSpotifyID(probe.body)]
    /\ UNCHANGED <<cache, res, config, sched, connected, presence, inv, overlapped,
                   lastNP, lastCb>>

SpecParse == InitParse /\ [][parseSpotifyIDCall]_vars

\* All ids of a body's results, in array order
RECURSIVE Flatten(_)
Flatten(results) ==
    IF results = <<>> THEN <<>> ELSE Head(results) \o Flatten(Tail(results))

\* C25: parseSpotifyID returns the first non-empty id in the order results
\* first, ids within a result second, past results that have no id; it returns
\* the empty string for an unparsable body, an empty array, and when every id
\* is empty or absent.
C25_FirstNonEmptyIDInArrayOrder ==
    probe.done =>
        LET ids  == IF probe.body.json THEN Flatten(probe.body.results) ELSE <<>>
            full == {i \in 1..Len(ids) : ids[i] # <<>>}
        IN  /\ full = {} => probe.id = <<>>
            /\ full # {} =>
                 probe.id = ids[CHOOSE i \in full : \A j \in full : i <= j]

\* A result without ids and an empty id are passed over on the way to the id
C25_Witness ==
    /\ probe.done
    /\ probe.body = Body(<< <<>>, << <<>>, IdY >> >>)
    /\ probe.id = IdY

(***************************************************************************)
(* The fallback search URL as a function of the track's raw artist string, *)
(* structured artists and title.                                           *)
(***************************************************************************)
\* track.Artist: empty, blank, padded, with a featuring suffix, with a slash
SearchArtists ==
    { <<>>, <<" ">>, <<"A">>, <<" ","A">>, <<"A"," ">>, <<"A"," ","B">>,
      <<"A"," ","f","t","."," ","B">>, <<"a","/","b">> }

\* track.Title: empty, blank, padded, with a question mark
SearchTitles == { <<>>, <<" ">>, <<"T">>, <<"T"," ">>, <<" ","T">>, <<"t","?">> }

\* track.Artists: none, or one structured artist
SearchArtistLists == { <<>>, << <<"F">> >> }

InitSearch ==
    /\ cache = [k \in CacheKeys |-> NoEntry]
    /\ res = NoRes
    /\ config = ConfigGood
    /\ sched = NoJobs
    /\ connected = {}
    /\ presence = [u \in Usernames |-> FALSE]
    /\ inv = NoneInProgress
    /\ overlapped = {}
    /\ lastNP = NoNP
    /\ lastCb = NoCb
    /\ probe \in [done : {FALSE}, Artist : SearchArtists, Title : SearchTitles,
                  Artists : SearchArtistLists]

\* The fallback step of resolveSpotifyURL builds the search URL of the track
FallbackURLCall ==
    /\ ~probe.done
    /\ probe' = [done |-> TRUE, Artist |-> probe.Artist, Title |-> probe.Title,
                 Artists |-> probe.Artists,
                 url |-> FallbackURL(Track(probe.Artist, probe.Artists, probe.Title,
                                           <<>>, <<>>, 0))]
    /\ UNCHANGED <<cache, res, config, sched, connected, presence, inv, overlapped,
                   lastNP, lastCb>>

SpecSearch == InitSearch /\ [][FallbackURLCall]_vars

\* The non-empty ones of the raw artist string and the title, in that order,
\* joined by a single space
JoinedParts(artist, title) ==
    IF artist = <<>> THEN title
    ELSE IF title = <<>> THEN artist
    ELSE artist \o <<" ">> \o title

\* C26 as stated: the bare root when artist and title are both empty or
\* blank, and otherwise the root followed by the escaped joined parts
C26_SearchURLOfJoinedParts ==
    probe.done =>
        probe.url = IF TrimSpace(probe.Artist) = <<>> /\ TrimSpace(probe.Title) = <<>>
                    THEN <<SearchRoot>>
                    ELSE <<SearchRoot>> \o PathEscape(JoinedParts(probe.Artist, probe.Title))

\* C26, amended: the search URL starts with the search root; it is the bare
\* root when the raw artist string and the title are both empty or blank, and
\* otherwise the root followed by the escaped query, the query being the
\* joined non-empty parts with the white space at both ends of the whole
\* removed; the structured artists play no part.
C26_SearchURLOfTrimmedJoinedParts ==
    probe.done =>
        LET query == TrimSpace(JoinedParts(probe.Artist, probe.Title))
        IN  /\ IsSearchURL(probe.url)
            /\ (TrimSpace(probe.Artist) = <<>> /\ TrimSpace(probe.Title) = <<>>)
                   <=> probe.url = <<SearchRoot>>
            /\ probe.url = IF query = <<>> THEN <<SearchRoot>>
                           ELSE <<SearchRoot>> \o PathEscape(query)

\* A featuring artist and a padded title, with a structured artist present
C26_Witness ==
    /\ probe.done
    /\ probe.Artist = <<"A"," ","f","t","."," ","B">>
    /\ probe.Artists = << <<"F">> >>
    /\ probe.Title = <<"T"," ">>
    /\ probe.url = <<SearchRoot, "A","%","2","0","f","t",".","%","2","0","B","%","2","0","T">>

====
